---- MODULE Spec2Model ----
(***************************************************************************)
(* Job-board backend (backend/mynewapp): the relational store, the         *)
(* application / interview / appointment workflow and the AI job           *)
(* recommendation pipeline, as a state machine over the store and the      *)
(* requests in flight.                                                     *)
(*                                                                         *)
(* Conventions.                                                            *)
(*  - An optional Python value (None or a value) is a sequence of length   *)
(*    0 or 1: <<>> is None, <<v>> is the value v.                          *)
(*  - A row's primary key is its position in the table's sequence (rows of *)
(*    jobs and applications are never removed by any endpoint); created_at *)
(*    grows with the primary key.                                          *)
(*  - An Employer / JobSeeker profile is identified by the id of the user  *)
(*    owning it (both are OneToOne with the user).                         *)
(*  - A request handler is one action, except where it makes several       *)
(*    separate store or network round trips that other requests can        *)
(*    interleave with: there it is one action per round trip.              *)
(***************************************************************************)
EXTENDS Integers, Sequences, FiniteSets, TLC

(***************************************************************************)
(* Bounds of the model.                                                    *)
(***************************************************************************)
MaxJobs == 6
MaxReplyLen == 4
MaxApplications == 3
MaxInterviews == 3
MaxRequests == 2

(***************************************************************************)
(* Program constants.                                                      *)
(***************************************************************************)
MinPool == 5
DefaultLimit == 25

VARIABLES
    users,          \* user id -> the CustomUser row ([role], or the full row)
    employer_profile, \* user ids that own an Employer row
    seeker_profile, \* user ids that own a JobSeeker row
    jobs,           \* Seq of [employer, is_active]; Job.id = index
    applications,   \* Seq of [job, seeker, status]; Application.id = index
    interviews,     \* set of [id, application, title, date, time]
    nextInterview,  \* next Interview.id (ids of deleted rows are not reused)
    appointments,   \* set of [id, application, title, date, time, content]
    rec,            \* the recommendation request in flight
    appReq,         \* application-create requests in flight
    intReq          \* interview-create requests in flight

vars == <<users, employer_profile, seeker_profile, jobs, applications,
          interviews, nextInterview, appointments, rec, appReq, intReq>>

Anonymous == 0
UserIds == 1..3
Callers == UserIds \cup {Anonymous}

None == <<>>
Some(v) == <<v>>

is_authenticated(u) == u # Anonymous
role(u) == IF is_authenticated(u) THEN users[u].role ELSE "none"
has_employer_profile(u) == u \in employer_profile
has_seeker_profile(u) == u \in seeker_profile

(***************************************************************************)
(* Job.objects.filter(is_active=True).order_by('-created_at')[:n]          *)
(***************************************************************************)
RECURSIVE ActiveDesc(_, _)
ActiveDesc(js, i) ==
    IF i = 0 THEN <<>>
    ELSE IF js[i].is_active THEN <<i>> \o ActiveDesc(js, i - 1)
         ELSE ActiveDesc(js, i - 1)

Take(s, n) == IF Len(s) <= n THEN s ELSE IF n <= 0 THEN <<>> ELSE SubSeq(s, 1, n)

Max(a, b) == IF a >= b THEN a ELSE b

SeqToSet(s) == {s[i] : i \in 1..Len(s)}

(***************************************************************************)
(* The model's reply, as text.  A reply is a sequence of tokens; each      *)
(* token stands for a piece of text:                                       *)
(*   "{" "}"    the braces                                                 *)
(*   "w"        a word that is not JSON (Sure!)                            *)
(*   "7"        a JSON number                                              *)
(*   "null"     the JSON null                                              *)
(*   "id:0" "id:1" "id:9"  the member "best_job_id": 0 (resp. 1, 9), with  *)
(*              the comma that separates it from a member before it        *)
(*   "id:abc"   the member "best_job_id": "abc"                            *)
(*   "sr"       the members "score": 91, "reason": "skills match"          *)
(***************************************************************************)
IdTokens == {"id:0", "id:1", "id:9", "id:abc"}
MemberTokens == IdTokens \cup {"sr"}
Tokens == {"{", "}", "w", "7", "null"} \cup MemberTokens
Replies == UNION {[1..n -> Tokens] : n \in 0..MaxReplyLen}

\* The value a best_job_id member carries: [type, n].
IdValue(tok) ==
    CASE tok = "id:0" -> [type |-> "int", n |-> 0]
      [] tok = "id:1" -> [type |-> "int", n |-> 1]
      [] tok = "id:9" -> [type |-> "int", n |-> 9]
      [] tok = "id:abc" -> [type |-> "str", n |-> 0]

\* json.loads: [ok, kind, members]; ok = FALSE stands for the exception.
json_loads(t) ==
    IF t = <<"7">> THEN [ok |-> TRUE, kind |-> "number", members |-> <<>>]
    ELSE IF t = <<"null">> THEN [ok |-> TRUE, kind |-> "null", members |-> <<>>]
    ELSE IF /\ Len(t) >= 2
            /\ t[1] = "{"
            /\ t[Len(t)] = "}"
            /\ \A i \in 2..(Len(t) - 1) : t[i] \in MemberTokens
         THEN [ok |-> TRUE, kind |-> "object",
               members |-> SubSeq(t, 2, Len(t) - 1)]
         ELSE [ok |-> FALSE, kind |-> "error", members |-> <<>>]

\* str.find / str.rfind, 1-based; 0 stands for Python's -1.
find(t, c) ==
    IF \E i \in 1..Len(t) : t[i] = c
    THEN CHOOSE i \in 1..Len(t) : t[i] = c /\ \A j \in 1..(i - 1) : t[j] # c
    ELSE 0

rfind(t, c) ==
    IF \E i \in 1..Len(t) : t[i] = c
    THEN CHOOSE i \in 1..Len(t) : t[i] = c /\ \A j \in (i + 1)..Len(t) : t[j] # c
    ELSE 0

PyNone == [ok |-> TRUE, kind |-> "None", members |-> <<>>]

parse_best_job_json(raw) ==
    LET whole == json_loads(raw)
        start == find(raw, "{")
        end == rfind(raw, "}")
    IN  IF whole.ok THEN whole
        ELSE IF start # 0 /\ end # 0 /\ end > start
             THEN LET snippet == json_loads(SubSeq(raw, start, end))
                  IN  IF snippet.ok THEN snippet ELSE PyNone
             ELSE PyNone

\* dict.get(key) on the parsed members: a later member overrides an earlier one.
GetBestJobId(members) ==
    LET idx == {i \in 1..Len(members) : members[i] \in IdTokens}
    IN  IF idx = {} THEN None
        ELSE Some(IdValue(members[CHOOSE i \in idx : \A j \in idx : j <= i]))

GetScore(members) ==
    IF \E i \in 1..Len(members) : members[i] = "sr" THEN Some(91) ELSE None

GetReason(members) ==
    IF \E i \in 1..Len(members) : members[i] = "sr" THEN Some("skills match") ELSE None

\* Python truth of the parsed value (parsed or {}).
Truthy(parsed) ==
    \/ parsed.kind = "number"
    \/ parsed.kind = "object" /\ Len(parsed.members) > 0

\* recommend_best_job after the call returned raw: the result dict, or the
\* exception raised (error # "").
recommend_best_job(raw) ==
    LET parsed == parse_best_job_json(raw)
        members == IF Truthy(parsed) THEN parsed.members ELSE <<>>
    IN  IF Truthy(parsed) /\ parsed.kind # "object"
        THEN [error |-> "AttributeError", best_job_id |-> None,
              score |-> None, reason |-> None]
        ELSE [error |-> "", best_job_id |-> GetBestJobId(members),
              score |-> GetScore(members), reason |-> GetReason(members)]

(***************************************************************************)
(* The store after the accounts of the model have registered: user 1 is a  *)
(* seeker, user 3 a provider, and user 2 a provider whose role an          *)
(* administrator later changed to seeker (it keeps its Employer row and    *)
(* has no JobSeeker row).                                                  *)
(***************************************************************************)
NoResp == [status |-> 0, job |-> None, score |-> None, reason |-> None,
           error |-> ""]
NoResult == [error |-> "", best_job_id |-> None, score |-> None, reason |-> None]
RecIdle == [pc |-> "idle", pool |-> <<>>, activeAtFetch |-> None,
            calls |-> 0, reply |-> [kind |-> "", embedded |-> FALSE],
            result |-> NoResult,
            resolved |-> FALSE, resp |-> NoResp]

AppIdle == [pc |-> "idle", job |-> 0, seeker |-> 0, status |-> ""]
IntIdle == [pc |-> "idle", application |-> 0, interview |-> 0, title |-> "",
            date |-> 0, time |-> 0]

InitWith(js, apps, seekers) ==
    /\ users = [u \in UserIds |->
                  [role |-> IF u = 3 THEN "provider" ELSE "seeker"]]
    /\ employer_profile = {2, 3}
    /\ seeker_profile = seekers
    /\ jobs = js
    /\ applications = apps
    /\ interviews = {}
    /\ nextInterview = 1
    /\ appointments = {}
    /\ rec = RecIdle
    /\ appReq = [r \in 1..MaxRequests |-> AppIdle]
    /\ intReq = [r \in 1..MaxRequests |-> IntIdle]

InitStore == InitWith(<<>>, <<>>, {1})

JobCreate_anyEmployer(caller, active) ==
    /\ Len(jobs) < MaxJobs
    /\ IF ~is_authenticated(caller) \/ ~has_employer_profile(caller)
       THEN UNCHANGED jobs
       ELSE jobs' = Append(jobs, [employer |-> caller, is_active |-> active])
    /\ UNCHANGED <<users, employer_profile, seeker_profile, applications,
                   interviews, nextInterview, appointments, rec, appReq, intReq>>

(***************************************************************************)
(* POST /jobs/ (JobListCreateView.perform_create).  is_active is a         *)
(* writable field of JobSerializer (default True).                         *)
(***************************************************************************)
JobCreate(caller, active) ==
    /\ Len(jobs) < MaxJobs
    /\ IF ~is_authenticated(caller) \/ role(caller) # "provider"
          \/ ~has_employer_profile(caller)
       THEN UNCHANGED jobs      \* PermissionDenied
       ELSE jobs' = Append(jobs, [employer |-> caller, is_active |-> active])
    /\ UNCHANGED <<users, employer_profile, seeker_profile, applications,
                   interviews, nextInterview, appointments, rec, appReq, intReq>>

(***************************************************************************)
(* /jobs/{id}/ (JobRetrieveUpdateDestroyView).  get_object returns the Job *)
(* only to a GET of an active Job and returns nothing otherwise: a PATCH   *)
(* saves a serializer without instance, that is it inserts a Job without   *)
(* employer, which the NOT NULL column refuses, and a DELETE calls         *)
(* delete() on nothing.  JobWrite is the status of the answer to a PATCH   *)
(* or a DELETE; no request of this endpoint changes the store.             *)
(***************************************************************************)
JobWrite(caller, id) ==
    IF ~is_authenticated(caller) THEN 401       \* IsAuthenticatedOrReadOnly
    ELSE IF id \notin 1..Len(jobs) THEN 404
    ELSE 500

\* PATCH /jobs/{id}/ {is_active: active}
JobUpdate(caller, id, active) ==
    /\ JobWrite(caller, id) \in {401, 404, 500}
    /\ UNCHANGED vars

\* DELETE /jobs/{id}/
JobDelete(caller, id) ==
    /\ JobWrite(caller, id) \in {401, 404, 500}
    /\ UNCHANGED vars

NextJob ==
    \/ \E caller \in Callers, active \in BOOLEAN : JobCreate(caller, active)
    \/ \E caller \in Callers, id \in 1..MaxJobs, active \in BOOLEAN :
            JobUpdate(caller, id, active)
    \/ \E caller \in Callers, id \in 1..MaxJobs : JobDelete(caller, id)

SpecJob == InitStore /\ [][NextJob]_vars

(***************************************************************************)
(* POST /ai/recommend-job/ (AIJobRecommendationView.post), in three round  *)
(* trips: the pool query, the call of the external model, the resolution   *)
(* of the Job.  The resume text (request body or the caller's JobSeeker    *)
(* row) only goes into the prompt; the reply of the external model is any  *)
(* text whatever the prompt, so the resume is not kept in the state.       *)
(***************************************************************************)
\* int(request.data.get('limit') or 25): <<>> is an absent limit, <<"bad">>
\* a text int() rejects, <<n>> a number.
LimitInputs == {<<>>, <<"bad">>, <<"0">>, <<"1">>, <<"-1">>, <<"6">>}
LimitValue(l) ==
    CASE l = <<>> -> DefaultLimit
      [] l = <<"0">> -> DefaultLimit
      [] l = <<"1">> -> 1
      [] l = <<"-1">> -> 0 - 1
      [] l = <<"6">> -> 6
      [] OTHER -> 0

PoolSize_noMinimum(limit) == limit

PoolSize(limit) == Max(MinPool, limit)

RecFetch(caller, l) ==
    /\ rec.pc \in {"idle", "done"}
    /\ LET active == ActiveDesc(jobs, Len(jobs))
           pool == Take(active, PoolSize(LimitValue(l)))
           fresh == RecIdle
       IN  IF ~is_authenticated(caller)
           THEN rec' = [fresh EXCEPT !.pc = "done", !.resp.status = 401]
           ELSE IF l = <<"bad">>
           THEN rec' = [fresh EXCEPT !.pc = "done", !.resp.status = 500,
                                     !.resp.error = "ValueError"]
           ELSE IF pool = <<>>
           THEN rec' = [fresh EXCEPT !.pc = "done", !.pool = pool,
                                     !.activeAtFetch = Some(Len(active)),
                                     !.resp.status = 404]
           ELSE rec' = [fresh EXCEPT !.pc = "fetched", !.pool = pool,
                                     !.activeAtFetch = Some(Len(active))]
    /\ UNCHANGED <<users, employer_profile, seeker_profile, jobs, applications,
                   interviews, nextInterview, appointments, appReq, intReq>>

\* What a reply makes of recommend_best_job: the result dict (or the exception),
\* and how parse_best_job_json read the text (kind "None": neither the whole
\* text nor its first-{ to last-} span parsed; embedded: only the span did).
ReplyOutcome(raw) ==
    LET parsed == parse_best_job_json(raw)
    IN  [result |-> recommend_best_job(raw),
         kind |-> parsed.kind,
         embedded |-> ~json_loads(raw).ok /\ parsed.kind # "None"]

ReplyOutcomes == {ReplyOutcome(raw) : raw \in Replies}

\* recommend_best_job: the call answers with a text, or raises (HTTP error,
\* timeout).
RecCall ==
    /\ rec.pc = "fetched"
    /\ \/ rec' = [rec EXCEPT !.pc = "done", !.calls = @ + 1,
                             !.resp.status = 500, !.resp.error = "transport"]
       \/ \E o \in ReplyOutcomes :
            IF o.result.error # ""
            THEN rec' = [rec EXCEPT !.pc = "done", !.calls = @ + 1,
                                    !.reply = [kind |-> o.kind, embedded |-> o.embedded],
                                    !.resp.status = 500,
                                    !.resp.error = o.result.error]
            ELSE rec' = [rec EXCEPT !.pc = "called", !.calls = @ + 1,
                                    !.reply = [kind |-> o.kind, embedded |-> o.embedded],
                                    !.result = o.result]
    /\ UNCHANGED <<users, employer_profile, seeker_profile, jobs, applications,
                   interviews, nextInterview, appointments, appReq, intReq>>

\* Job.objects.filter(pk=best_id, is_active=True).first()
ActiveJobByPk(n) ==
    IF n \in 1..Len(jobs) /\ jobs[n].is_active THEN Some(n) ELSE None

ResolveJob_fallbackToLast(best_id, pool) ==
    LET found == IF best_id # None /\ best_id[1].n # 0
                 THEN ActiveJobByPk(best_id[1].n)
                 ELSE None
    IN  IF found # None THEN found[1] ELSE pool[Len(pool)]

\* The Job the view answers with, given the model's best_job_id.
ResolveJob(best_id, pool) ==
    LET found == IF best_id # None /\ best_id[1].n # 0
                 THEN ActiveJobByPk(best_id[1].n)
                 ELSE None
    IN  IF found # None THEN found[1] ELSE pool[1]

RecResolve ==
    /\ rec.pc = "called"
    /\ LET best_id == rec.result.best_job_id
       IN  IF best_id # None /\ best_id[1].type = "str"
           THEN rec' = [rec EXCEPT !.pc = "done", !.resp.status = 500,
                                   !.resp.error = "ValueError"]
           ELSE rec' = [rec EXCEPT !.pc = "done", !.resolved = TRUE,
                                   !.resp = [status |-> 200,
                                             job |-> Some(ResolveJob(best_id, rec.pool)),
                                             score |-> rec.result.score,
                                             reason |-> rec.result.reason,
                                             error |-> ""]]
    /\ UNCHANGED <<users, employer_profile, seeker_profile, jobs, applications,
                   interviews, nextInterview, appointments, appReq, intReq>>

NextRec ==
    \/ \E caller \in Callers, active \in BOOLEAN : JobCreate(caller, active)
    \/ \E caller \in Callers, l \in LimitInputs : RecFetch(caller, l)
    \/ RecCall
    \/ RecResolve

SpecRec == InitStore /\ [][NextRec]_vars

(***************************************************************************)
(* Applications.  Application has no uniqueness constraint on (job,        *)
(* seeker) (models.py: no Meta), so the store accepts any row.             *)
(***************************************************************************)
Status == {"PENDING", "REVIEW", "ACCEPTED", "REJECTED"}
DefaultStatus == "PENDING"

\* The Jobs of the application and interview specifications: Job 1 (active) and
\* Job 2 (inactive) posted by user 3, Job 3 (active) posted by user 2 while it
\* was a provider.
PostedJobs ==
    <<[employer |-> 3, is_active |-> TRUE],
      [employer |-> 3, is_active |-> FALSE],
      [employer |-> 2, is_active |-> TRUE]>>

InitApp == InitWith(PostedJobs, <<>>, {1})

\* Request bodies: job is a primary key (0: of no Job), status is absent or one
\* of the choices.
JobInputs == 0..Len(PostedJobs)
StatusInputs == {None, Some("ACCEPTED")}

\* Application.objects.filter(job=job, seeker=seeker).exists()
ApplicationExists(apps, job, seeker) ==
    \E i \in 1..Len(apps) : apps[i].job = job /\ apps[i].seeker = seeker

\* Application.objects.create(**validated_data): a status the body does not
\* carry takes the field's default.
NewApplication(job, seeker, status) ==
    [job |-> job, seeker |-> seeker,
     status |-> IF status = None THEN DefaultStatus ELSE status[1]]

(***************************************************************************)
(* POST /applications/ (ApplicationListView.perform_create), first round   *)
(* trips: the serializer's validation, the role check, the seeker profile  *)
(* (a second insert for the same user fails on the OneToOne constraint),   *)
(* the Job's availability and the duplicate query.                         *)
(***************************************************************************)
ApplicationCheck(r, caller, job, status) ==
    /\ appReq[r].pc = "idle"
    /\ Len(applications) < MaxApplications
    /\ IF \/ ~is_authenticated(caller)              \* IsAuthenticatedOrReadOnly
          \/ job \notin 1..Len(jobs)                \* PrimaryKeyRelatedField
          \/ role(caller) # "seeker"                \* PermissionDenied
       THEN UNCHANGED <<seeker_profile, appReq>>
       ELSE /\ seeker_profile' = seeker_profile \cup {caller}
            /\ IF \/ ~jobs[job].is_active
                  \/ ApplicationExists(applications, job, caller)
               THEN UNCHANGED appReq                \* PermissionDenied
               ELSE appReq' = [appReq EXCEPT ![r] =
                        [pc |-> "checked", job |-> job, seeker |-> caller,
                         status |-> IF status = None THEN "" ELSE status[1]]]
    /\ UNCHANGED <<users, employer_profile, jobs, applications, interviews,
                   nextInterview, appointments, rec, intReq>>

\* serializer.save(job=job, seeker=seeker)
ApplicationSave(r) ==
    /\ appReq[r].pc = "checked"
    /\ applications' = Append(applications,
            NewApplication(appReq[r].job, appReq[r].seeker,
                           IF appReq[r].status = "" THEN None
                           ELSE Some(appReq[r].status)))
    /\ appReq' = [appReq EXCEPT ![r] = AppIdle]
    /\ UNCHANGED <<users, employer_profile, seeker_profile, jobs, interviews,
                   nextInterview, appointments, rec, intReq>>

ApplicationUpdate_noOwnerCheck(caller, id, job, status) ==
    /\ id \in 1..Len(applications)
    /\ IF \/ ~is_authenticated(caller)
          \/ role(caller) # "provider"
          \/ ~has_employer_profile(caller)
          \/ (job # None /\ job[1] \notin 1..Len(jobs))
       THEN UNCHANGED applications
       ELSE applications' = [applications EXCEPT
                ![id].job = IF job = None THEN @ ELSE job[1],
                ![id].status = IF status = None THEN @ ELSE status[1]]
    /\ UNCHANGED <<users, employer_profile, seeker_profile, jobs, interviews,
                   nextInterview, appointments, rec, appReq, intReq>>

(***************************************************************************)
(* PUT / PATCH /applications/{id}/ (ApplicationRetrieveUpdateView): job and *)
(* status are the writable fields of ApplicationSerializer; a PATCH may    *)
(* leave either out (<<>>).                                                *)
(***************************************************************************)
ApplicationUpdate(caller, id, job, status) ==
    /\ id \in 1..Len(applications)
    /\ IF \/ ~is_authenticated(caller)
          \/ role(caller) # "provider"
          \/ ~has_employer_profile(caller)
          \/ jobs[applications[id].job].employer # caller
          \/ (job # None /\ job[1] \notin 1..Len(jobs))
       THEN UNCHANGED applications
       ELSE applications' = [applications EXCEPT
                ![id].job = IF job = None THEN @ ELSE job[1],
                ![id].status = IF status = None THEN @ ELSE status[1]]
    /\ UNCHANGED <<users, employer_profile, seeker_profile, jobs, interviews,
                   nextInterview, appointments, rec, appReq, intReq>>

NextApp ==
    \/ \E r \in 1..MaxRequests, caller \in Callers, job \in JobInputs,
          status \in StatusInputs : ApplicationCheck(r, caller, job, status)
    \/ \E r \in 1..MaxRequests : ApplicationSave(r)
    \/ \E caller \in Callers, id \in 1..MaxApplications,
          job \in {None} \cup {Some(j) : j \in JobInputs},
          status \in StatusInputs : ApplicationUpdate(caller, id, job, status)

SpecApp == InitApp /\ [][NextApp]_vars

(***************************************************************************)
(* Interviews and appointments.  Appointment.application is a OneToOne     *)
(* field: the store holds at most one Appointment row per Application and  *)
(* update_or_create updates the row it finds (or the row a concurrent      *)
(* insert won with).                                                       *)
(***************************************************************************)
\* The Applications of the interview specification: users 1 and 2 applied to
\* Job 1 (of user 3), user 1 applied to Job 3 (of user 2).
FiledApplications ==
    <<[job |-> 1, seeker |-> 1, status |-> "PENDING"],
      [job |-> 1, seeker |-> 2, status |-> "PENDING"],
      [job |-> 3, seeker |-> 1, status |-> "PENDING"]>>

InitInt == InitWith(PostedJobs, FiledApplications, {1, 2})

\* Request bodies of POST /interviews/: application is a primary key (0: of no
\* Application), with a title, a date and a time.
ApplicationInputs == 0..Len(FiledApplications)
InterviewInputs ==
    {[title |-> "t1", date |-> 1, time |-> 10],
     [title |-> "t2", date |-> 2, time |-> 20]}

Content(title) == <<"Interview: ", title>>

OwnsApplication_anyProvider(caller, id) ==
    /\ is_authenticated(caller)
    /\ role(caller) = "provider"
    /\ has_employer_profile(caller)
    /\ id \in 1..Len(applications)

\* The caller may act on the Interviews of Application id.
OwnsApplication(caller, id) ==
    /\ is_authenticated(caller)
    /\ role(caller) = "provider"
    /\ has_employer_profile(caller)
    /\ id \in 1..Len(applications)
    /\ jobs[applications[id].job].employer = caller

update_or_create_alwaysCreate(appts, app, title, date, time) ==
    appts \cup {[id |-> Cardinality(appts) + 1, application |-> app,
                 title |-> title, date |-> date, time |-> time,
                 content |-> Content(title)]}

\* Appointment.objects.update_or_create(application=app, defaults={...})
update_or_create(appts, app, title, date, time) ==
    IF \E a \in appts : a.application = app
    THEN {IF a.application = app
          THEN [a EXCEPT !.title = title, !.date = date, !.time = time,
                         !.content = Content(title)]
          ELSE a : a \in appts}
    ELSE appts \cup {[id |-> Cardinality(appts) + 1, application |-> app,
                      title |-> title, date |-> date, time |-> time,
                      content |-> Content(title)]}

(***************************************************************************)
(* POST /interviews/ (InterviewListCreateView.perform_create), first round *)
(* trips: the checks and serializer.save(application=app).                 *)
(***************************************************************************)
InterviewSave(r, caller, app, body) ==
    /\ intReq[r].pc = "idle"
    /\ nextInterview <= MaxInterviews
    /\ IF ~OwnsApplication(caller, app)
       THEN UNCHANGED <<interviews, nextInterview, intReq>>
       ELSE /\ interviews' = interviews \cup
                    {[id |-> nextInterview, application |-> app,
                      title |-> body.title, date |-> body.date,
                      time |-> body.time]}
            /\ nextInterview' = nextInterview + 1
            /\ intReq' = [intReq EXCEPT ![r] =
                    [pc |-> "saved", application |-> app,
                     interview |-> nextInterview, title |-> body.title,
                     date |-> body.date, time |-> body.time]]
    /\ UNCHANGED <<users, employer_profile, seeker_profile, jobs, applications,
                   appointments, rec, appReq>>

\* Second round trip: the Appointment of the Application is upserted from the
\* Interview object the request holds.
AppointmentUpsert(r) ==
    /\ intReq[r].pc = "saved"
    /\ appointments' = update_or_create(appointments, intReq[r].application,
                            intReq[r].title, intReq[r].date, intReq[r].time)
    /\ intReq' = [intReq EXCEPT ![r] = IntIdle]
    /\ UNCHANGED <<users, employer_profile, seeker_profile, jobs, applications,
                   interviews, nextInterview, rec, appReq>>

(***************************************************************************)
(* DELETE /interviews/{id}/ (InterviewRetrieveDestroyView): get_object,    *)
(* then the row is deleted; no Appointment is touched.                     *)
(***************************************************************************)
InterviewDelete(caller, id) ==
    /\ \E i \in interviews :
          /\ i.id = id
          /\ IF ~OwnsApplication(caller, i.application)
             THEN UNCHANGED interviews
             ELSE interviews' = interviews \ {i}
    /\ UNCHANGED <<users, employer_profile, seeker_profile, jobs, applications,
                   nextInterview, appointments, rec, appReq, intReq>>

(***************************************************************************)
(* GET /interviews/{id}/ (InterviewRetrieveDestroyView.get_object): the    *)
(* status of the answer; the store is not changed.                         *)
(***************************************************************************)
InterviewRetrieve(caller, id) ==
    IF ~(\E i \in interviews : i.id = id) THEN 404
    ELSE LET i == CHOOSE x \in interviews : x.id = id
         IN  IF OwnsApplication(caller, i.application) THEN 200 ELSE 403

NextInt ==
    \/ \E r \in 1..MaxRequests, caller \in Callers, app \in ApplicationInputs,
          body \in InterviewInputs : InterviewSave(r, caller, app, body)
    \/ \E r \in 1..MaxRequests : AppointmentUpsert(r)
    \/ \E caller \in Callers, id \in 1..MaxInterviews : InterviewDelete(caller, id)

SpecInt == InitInt /\ [][NextInt]_vars

\* The interview handlers with every caller and Application and one request
\* body: who may act does not depend on the body.
OwnerInputs == {[title |-> "t1", date |-> 1, time |-> 10]}

NextOwner ==
    \/ \E r \in 1..MaxRequests, caller \in Callers, app \in ApplicationInputs,
          body \in OwnerInputs : InterviewSave(r, caller, app, body)
    \/ \E r \in 1..MaxRequests : AppointmentUpsert(r)
    \/ \E caller \in Callers, id \in 1..MaxInterviews : InterviewDelete(caller, id)

SpecOwner == InitInt /\ [][NextOwner]_vars

(***************************************************************************)
(* A single Application (ApplicationRetrieveUpdateView), on the store of   *)
(* the interview specification: retrieved and updated by every caller,     *)
(* with every writable field.                                              *)
(***************************************************************************)
\* GET /applications/{id}/: the status of the answer.
ApplicationRetrieve(caller, id) ==
    IF id \notin 1..Len(applications) THEN 404
    ELSE IF \/ ~is_authenticated(caller)
            \/ role(caller) # "provider"
            \/ ~has_employer_profile(caller)
         THEN 403
    ELSE IF jobs[applications[id].job].employer # caller THEN 403
    ELSE 200

(***************************************************************************)
(* GET /applications/ (ApplicationListView.get_queryset): the ids of the   *)
(* listed Applications, most recent first.  status_filter and mine are the *)
(* query parameters (None: absent; mine also stands for my).               *)
(***************************************************************************)
\* order_by('-created_at') over the rows whose ids are in kept.
RECURSIVE ApplicationsDesc(_, _)
ApplicationsDesc(kept, i) ==
    IF i = 0 THEN <<>>
    ELSE IF i \in kept THEN <<i>> \o ApplicationsDesc(kept, i - 1)
         ELSE ApplicationsDesc(kept, i - 1)

ApplicationList(caller, status_filter, mine) ==
    LET ByStatus(a) == status_filter = None \/ a.status = status_filter[1]
        ByOwner(a) ==
            IF mine /\ is_authenticated(caller)
            THEN IF has_employer_profile(caller)
                 THEN jobs[a.job].employer = caller
                 ELSE IF has_seeker_profile(caller)
                      THEN a.seeker = caller
                      ELSE TRUE
            ELSE TRUE
        Keep(a) == ByStatus(a) /\ ByOwner(a)
    IN  ApplicationsDesc({i \in 1..Len(applications) : Keep(applications[i])},
                         Len(applications))

UpdateJobInputs == {None} \cup {Some(j) : j \in JobInputs}
UpdateStatusInputs == {None} \cup {Some(st) : st \in Status}

NextUpd ==
    \E caller \in Callers, id \in 1..Len(FiledApplications),
       job \in UpdateJobInputs, status \in UpdateStatusInputs :
        ApplicationUpdate(caller, id, job, status)

SpecUpd == InitInt /\ [][NextUpd]_vars

(***************************************************************************)
(* Accounts.  In the specifications of this part users is the sequence of  *)
(* the CustomUser rows (CustomUser.id = index), each                       *)
(*   [email, password, role, is_active, is_staff, is_superuser];           *)
(* an email is [local, domain], the text local@domain.  The Token of a     *)
(* user is created with the row and identified with the user's id; the     *)
(* Payment rows have no writer in the code and are not part of the state.  *)
(***************************************************************************)
\* str.lower on the texts that occur in emails.
Lower(str) ==
    CASE str = "Bob" -> "bob"
      [] str = "X.com" -> "x.com"
      [] OTHER -> str

Email(local, domain) == [local |-> local, domain |-> domain]

\* BaseUserManager.normalize_email: the domain part is lowercased, the local
\* part is kept.
normalize_email(e) == Email(e.local, Lower(e.domain))

\* The lookup email__iexact.
iexact(e, f) ==
    Lower(e.local) = Lower(f.local) /\ Lower(e.domain) = Lower(f.domain)

\* django.contrib.auth.password_validation.validate_password: "123" stands
\* for a password the validators refuse.
validate_password(password) == password # "123"

\* The user the framework attaches to a request that carries the credentials
\* of account u: an account that does not exist or is not active does not
\* authenticate.
request_user(u) ==
    IF u \in 1..Len(users) /\ users[u].is_active THEN u ELSE Anonymous

\* permission_classes = [IsAdminUser]
IsAdminUser(caller) ==
    /\ is_authenticated(request_user(caller))
    /\ users[caller].is_staff

\* CustomUserManager.create_superuser(email, password): no profile is created
\* and role takes its default.
Superuser ==
    [email |-> Email("root", "x.com"), password |-> "pw0", role |-> "seeker",
     is_active |-> TRUE, is_staff |-> TRUE, is_superuser |-> TRUE]

InitAccounts(us, employers, seekers, js) ==
    /\ users = us
    /\ employer_profile = employers
    /\ seeker_profile = seekers
    /\ jobs = js
    /\ applications = <<>>
    /\ interviews = {}
    /\ nextInterview = 1
    /\ appointments = {}
    /\ rec = RecIdle
    /\ appReq = [r \in 1..MaxRequests |-> AppIdle]
    /\ intReq = [r \in 1..MaxRequests |-> IntIdle]

\* UserSerializer.validate_role
validate_role(value) == IF value = "" THEN "seeker" ELSE value

(***************************************************************************)
(* UserSerializer: is_valid (validate_email, validate_role, validate) and  *)
(* create (create_user and the profile of the role).  The email column is  *)
(* unique: the insert of an email some row holds fails and nothing is      *)
(* stored.  role is "" (absent), "seeker" or "provider".                   *)
(***************************************************************************)
UserCreate(email, password, role_in) ==
    IF \/ \E i \in 1..Len(users) : users[i].email = email    \* validate_email
       \/ ~validate_password(password)                        \* validate
       \/ \E i \in 1..Len(users) :                            \* unique=True
              users[i].email = normalize_email(email)
    THEN UNCHANGED <<users, employer_profile, seeker_profile>>
    ELSE LET r == validate_role(role_in)
             id == Len(users) + 1
         IN  /\ users' = Append(users,
                    [email |-> normalize_email(email), password |-> password,
                     role |-> r, is_active |-> TRUE, is_staff |-> FALSE,
                     is_superuser |-> FALSE])
             /\ IF r = "provider"
                THEN /\ employer_profile' = employer_profile \cup {id}
                     /\ UNCHANGED seeker_profile
                ELSE /\ seeker_profile' = seeker_profile \cup {id}
                     /\ UNCHANGED employer_profile

\* POST /register/ (RegisterView.post)
Register(email, password, role_in) ==
    /\ UserCreate(email, password, role_in)
    /\ UNCHANGED <<jobs, applications, interviews, nextInterview, appointments,
                   rec, appReq, intReq>>

\* POST /system/users/ (AdminUserListCreateView.create)
AdminCreate(caller, email, password, role_in) ==
    /\ IF IsAdminUser(caller)
       THEN UserCreate(email, password, role_in)
       ELSE UNCHANGED <<users, employer_profile, seeker_profile>>
    /\ UNCHANGED <<jobs, applications, interviews, nextInterview, appointments,
                   rec, appReq, intReq>>

(***************************************************************************)
(* PUT / PATCH /system/users/{id}/ (AdminUserUpdateSerializer).  attrs is  *)
(* the validated body: each of role, is_active, is_staff, is_superuser is  *)
(* absent (None) or carries a value.  The update writes the fields of the  *)
(* CustomUser row and touches no profile.                                  *)
(***************************************************************************)
Attrs(r, a, st, su) ==
    [role |-> r, is_active |-> a, is_staff |-> st, is_superuser |-> su]

\* AdminUserUpdateSerializer.validate
validate_noSuperuserCheck(caller, attrs) == TRUE

validate(caller, attrs) ==
    ~(/\ attrs.is_staff # None \/ attrs.is_superuser # None
      /\ ~users[caller].is_superuser)

AdminUpdate(caller, id, attrs) ==
    /\ IF \/ ~IsAdminUser(caller)
          \/ id \notin 1..Len(users)
          \/ ~validate(caller, attrs)
       THEN UNCHANGED users
       ELSE users' = [users EXCEPT
                ![id].role = IF attrs.role = None THEN @ ELSE attrs.role[1],
                ![id].is_active =
                    IF attrs.is_active = None THEN @ ELSE attrs.is_active[1],
                ![id].is_staff =
                    IF attrs.is_staff = None THEN @ ELSE attrs.is_staff[1],
                ![id].is_superuser =
                    IF attrs.is_superuser = None THEN @
                    ELSE attrs.is_superuser[1]]
    /\ UNCHANGED <<employer_profile, seeker_profile, jobs, applications,
                   interviews, nextInterview, appointments, rec, appReq, intReq>>

(***************************************************************************)
(* DELETE /system/users/{id}/ (AdminUserRetrieveUpdateDestroyView.destroy) *)
(***************************************************************************)
\* The status of the answer.
AdminDestroyStatus(caller, id) ==
    IF ~IsAdminUser(caller) THEN 403
    ELSE IF id \notin 1..Len(users) THEN 404
    ELSE 204

AdminDestroy_toggle(caller, id) ==
    /\ IF AdminDestroyStatus(caller, id) = 204
       THEN users' = [users EXCEPT ![id].is_active = ~@]
       ELSE UNCHANGED users
    /\ UNCHANGED <<employer_profile, seeker_profile, jobs, applications,
                   interviews, nextInterview, appointments, rec, appReq, intReq>>

AdminDestroy(caller, id) ==
    /\ IF AdminDestroyStatus(caller, id) = 204
       THEN users' = [users EXCEPT ![id].is_active = FALSE]
       ELSE UNCHANGED users
    /\ UNCHANGED <<employer_profile, seeker_profile, jobs, applications,
                   interviews, nextInterview, appointments, rec, appReq, intReq>>

\* The accounts of the administration specification: the superuser, and two
\* accounts that register or are created by an administrator.
AdminEmails == {Email("amy", "x.com"), Email("bob", "x.com")}

\* Bodies of the administration specification: one flag each.
FlagBodies ==
    {Attrs(None, Some(TRUE), None, None)}
    \cup {Attrs(None, None, Some(b), None) : b \in BOOLEAN}
    \cup {Attrs(None, None, None, Some(b)) : b \in BOOLEAN}

InitAdmin == InitAccounts(<<Superuser>>, {}, {}, <<>>)

NextAdmin ==
    \/ \E email \in AdminEmails : Register(email, "pw1", "")
    \/ \E caller \in Callers, email \in AdminEmails :
            AdminCreate(caller, email, "pw1", "")
    \/ \E caller \in Callers, id \in UserIds, attrs \in FlagBodies :
            AdminUpdate(caller, id, attrs)
    \/ \E caller \in Callers, id \in UserIds : AdminDestroy(caller, id)

SpecAdmin == InitAdmin /\ [][NextAdmin]_vars

(***************************************************************************)
(* GET /users/me/seeker/ (SeekerProfileView.get_object): the JobSeeker row *)
(* of the caller, created when the caller has none, whatever the role.     *)
(***************************************************************************)
SeekerProfileGet(caller) ==
    /\ IF ~is_authenticated(request_user(caller))
       THEN UNCHANGED seeker_profile        \* PermissionDenied
       ELSE seeker_profile' = seeker_profile \cup {caller}
    /\ UNCHANGED <<users, employer_profile, jobs, applications, interviews,
                   nextInterview, appointments, rec, appReq, intReq>>

\* The accounts of the profile specification: the superuser, a provider that
\* registered and posted Job 1, and one account that registers.
Provider ==
    [email |-> Email("carl", "x.com"), password |-> "pw1", role |-> "provider",
     is_active |-> TRUE, is_staff |-> FALSE, is_superuser |-> FALSE]

InitProfile ==
    InitAccounts(<<Superuser, Provider>>, {2}, {},
                 <<[employer |-> 2, is_active |-> TRUE]>>)

RoleInputs == {"", "seeker", "provider"}
RoleBodies == {Attrs(Some(r), None, None, None) : r \in {"seeker", "provider"}}

NextProfile ==
    \/ \E r \in RoleInputs : Register(Email("amy", "x.com"), "pw1", r)
    \/ \E caller \in 0..Len(users) : SeekerProfileGet(caller)
    \/ \E caller \in 0..Len(users), id \in UserIds, attrs \in RoleBodies :
            AdminUpdate(caller, id, attrs)
    \/ \E r \in 1..MaxRequests, caller \in 0..Len(users), job \in 0..1 :
            ApplicationCheck(r, caller, job, None)
    \/ \E r \in 1..MaxRequests : ApplicationSave(r)

SpecProfile == InitProfile /\ [][NextProfile]_vars

(***************************************************************************)
(* POST /users/login/ (LoginSerializer.validate, LoginView.post): the      *)
(* first row, by id, whose email matches case-insensitively, then the      *)
(* password, then is_active.  The answer carries the Token of the user     *)
(* found.                                                                  *)
(***************************************************************************)
LoginFailed == [status |-> 400, user |-> Anonymous]

LoginResult(email, password) ==
    LET matches == {i \in 1..Len(users) : iexact(users[i].email, email)}
    IN  IF matches = {} THEN LoginFailed
        ELSE LET user == CHOOSE i \in matches : \A j \in matches : i <= j
             IN  IF users[user].password # password THEN LoginFailed
                 ELSE IF ~users[user].is_active THEN LoginFailed
                 ELSE [status |-> 200, user |-> user]

Login(email, password) ==
    /\ LoginResult(email, password).status \in {200, 400}
    /\ UNCHANGED vars

\* Request bodies of the registration specification.
RegEmails ==
    {Email(l, dom) : l \in {"Bob", "bob", "amy"}, dom \in {"X.com", "x.com"}}
Passwords == {"pw1", "pw2", "123"}

InitReg == InitAccounts(<<>>, {}, {}, <<>>)

NextReg ==
    \/ \E email \in RegEmails, password \in Passwords,
          r \in {"seeker", "provider"} : Register(email, password, r)
    \/ \E email \in RegEmails, password \in Passwords : Login(email, password)

SpecReg == InitReg /\ [][NextReg]_vars

(***************************************************************************)
(* Claims about the recommendation pipeline (SpecRec).                     *)
(***************************************************************************)
RecAnswered == rec.pc = "done" /\ rec.resp.status = 200

\* C1: a successful POST /ai/recommend-job/ returns a Job that is a member of
\* the fetched pool J and has is_active = true.
C1_RecommendedJobInPoolAndActive ==
    RecAnswered =>
        /\ rec.resp.job[1] \in SeqToSet(rec.pool)
        /\ jobs[rec.resp.job[1]].is_active

\* C2: if the reply parses neither as a whole nor as its first-{ to last-} span,
\* the endpoint answers 200 with the first Job of the fetched pool, score = null
\* and reason = null.
C2_UnparsableFallsBackToFirst ==
    (rec.pc = "done" /\ rec.reply.kind = "None") =>
        rec.resp = [status |-> 200, job |-> Some(rec.pool[1]),
                    score |-> None, reason |-> None, error |-> ""]

C2_Witness ==
    /\ rec.pc = "done"
    /\ rec.reply.kind = "None"
    /\ Len(rec.pool) >= 2
    /\ rec.resp.job = Some(rec.pool[1])

\* C3: if the parsed reply names a best_job_id that is not the id of a Job of
\* the fetched pool, or that is the id of an inactive Job, the endpoint returns
\* the first Job of the pool, as in the unparsable case.
C3_IdOutsidePoolFallsBackToFirst ==
    LET best_id == rec.result.best_job_id
    IN  (/\ rec.pc = "done"
         /\ rec.resolved
         /\ best_id # None
         /\ best_id[1].type = "int"
         /\ \/ best_id[1].n \notin SeqToSet(rec.pool)
            \/ best_id[1].n \notin 1..Len(jobs)
            \/ ~jobs[best_id[1].n].is_active)
        => rec.resp.job = Some(rec.pool[1])

\* C4: whatever text the model returns, a request with a non-empty pool whose
\* call of the model returned completes with a 200 carrying a Job.
C4_AnyReplyAnswers200 ==
    (rec.pc = "done" /\ rec.calls = 1 /\ rec.resp.error # "transport") =>
        (rec.resp.status = 200 /\ rec.resp.job # None)

\* C5: the request answers 404 exactly when no Job was active when the pool was
\* fetched, and then the model is never called; with a non-empty pool the model
\* is called exactly once, after the pool is fetched and before the Job is
\* resolved.
C5_EmptyPool404AndOneCall ==
    /\ rec.pc = "done" =>
          (rec.resp.status = 404 <=> rec.activeAtFetch = Some(0))
    /\ rec.resp.status = 404 => rec.calls = 0
    /\ rec.activeAtFetch = None => rec.calls = 0
    /\ rec.pc = "fetched" => (rec.calls = 0 /\ rec.pool # <<>>)
    /\ rec.pc = "called" => (rec.calls = 1 /\ ~rec.resolved)
    /\ (rec.pc = "done" /\ rec.pool # <<>>) => rec.calls = 1
    /\ rec.resolved => rec.calls = 1

C5_Witness ==
    /\ rec.pc = "done"
    /\ rec.resolved
    /\ rec.calls = 1
    /\ Len(rec.pool) = MinPool
    /\ rec.activeAtFetch = Some(MinPool + 1)

(***************************************************************************)
(* Claims about applications (SpecApp).                                    *)
(***************************************************************************)
\* C6: in every reachable state there is at most one Application for each
\* (Job, JobSeeker) pair.
C6_OneApplicationPerPair ==
    \A i, j \in 1..Len(applications) :
        (applications[i].job = applications[j].job
         /\ applications[i].seeker = applications[j].seeker) => i = j

\* C7: an Application is created only for a caller with role seeker, for a Job
\* that exists and is active, and when no Application exists for that (Job,
\* Seeker) pair; no other create request adds or changes an Application row.
C7_CreateOnlyWhenAllowed ==
    [][\/ applications' = applications
       \/ \E id \in 1..Len(applications) :
            applications' = [applications EXCEPT ![id] = applications'[id]]
       \/ /\ Len(applications') = Len(applications) + 1
          /\ SubSeq(applications', 1, Len(applications)) = applications
          /\ LET new == applications'[Len(applications')]
             IN  /\ role(new.seeker) = "seeker"
                 /\ new.job \in 1..Len(jobs)
                 /\ jobs[new.job].is_active
                 /\ ~ApplicationExists(applications, new.job, new.seeker)]_vars

\* C8: every Application a seeker creates has status Pending right after its
\* creation, whatever the request body carries.
C8_CreatedPending ==
    [][Len(applications') > Len(applications) =>
            applications'[Len(applications')].status = DefaultStatus]_vars

(***************************************************************************)
(* Claims about interviews and appointments (SpecInt).                     *)
(***************************************************************************)
AppointmentsOf(app) == {a \in appointments : a.application = app}
InterviewsOf(app) == {i \in interviews : i.application = app}
InFlight(app) ==
    \E r \in 1..MaxRequests :
        intReq[r].pc = "saved" /\ intReq[r].application = app

\* C9: there is at most one Appointment per Application, and an Application
\* whose interview-create requests have all completed has exactly one.
C9_OneAppointmentPerApplication ==
    \A app \in 1..Len(applications) :
        /\ Cardinality(AppointmentsOf(app)) <= 1
        /\ (InterviewsOf(app) # {} /\ ~InFlight(app)) =>
                Cardinality(AppointmentsOf(app)) = 1

C9_Witness ==
    \E app \in 1..Len(applications) :
        /\ Cardinality(InterviewsOf(app)) >= 2
        /\ ~InFlight(app)
        /\ Cardinality(AppointmentsOf(app)) = 1

\* C10: the Appointment of an Application carries the title, date and time of
\* the most recently created Interview of that Application, and the content
\* "Interview: {title}".
C10_AppointmentReflectsLatestInterview ==
    \A a \in appointments :
        (InterviewsOf(a.application) # {} /\ ~InFlight(a.application)) =>
            LET latest == CHOOSE i \in InterviewsOf(a.application) :
                            \A j \in InterviewsOf(a.application) : j.id <= i.id
            IN  /\ a.title = latest.title
                /\ a.date = latest.date
                /\ a.time = latest.time
                /\ a.content = Content(latest.title)

\* The caller is a provider with an Employer profile that owns the Job of
\* Application app.
OwningProvider(caller, app) ==
    /\ caller # Anonymous
    /\ users[caller].role = "provider"
    /\ caller \in employer_profile
    /\ app \in 1..Len(applications)
    /\ jobs[applications[app].job].employer = caller

\* A step of the interview handlers that respects ownership.
OwnedInterviewStep ==
    /\ \A caller \in Callers, r \in 1..MaxRequests,
          app \in ApplicationInputs, body \in OwnerInputs :
            (~OwningProvider(caller, app)
             /\ InterviewSave(r, caller, app, body)) =>
                UNCHANGED <<interviews, appointments, intReq>>
    /\ \A caller \in Callers, id \in 1..MaxInterviews :
            (~(\E i \in interviews :
                    i.id = id /\ OwningProvider(caller, i.application))
             /\ InterviewDelete(caller, id)) =>
                UNCHANGED <<interviews, appointments, intReq>>
    /\ (appointments' # appointments) =>
            (\E r \in 1..MaxRequests :
                intReq[r].pc = "saved" /\ AppointmentUpsert(r))

\* C11: an Interview is created, retrieved or deleted only for a caller that is
\* a provider whose Employer owns the Job of the Interview's Application; a
\* request of any other caller creates, changes and removes no Interview and no
\* Appointment.
C11_InterviewsOnlyByOwner ==
    /\ [](\A caller \in Callers : \A i \in interviews :
            (InterviewRetrieve(caller, i.id) = 200) =>
                OwningProvider(caller, i.application))
    /\ [][OwnedInterviewStep]_vars

C11_Witness ==
    /\ \E i \in interviews :
            i.application = 1 /\ InterviewRetrieve(3, i.id) = 200
                              /\ InterviewRetrieve(1, i.id) = 403
    /\ nextInterview - 1 > Cardinality(interviews)
    /\ appointments # {}

(***************************************************************************)
(* Claims about a single Application (SpecUpd).                            *)
(***************************************************************************)
DeniedUpdateStep ==
    \A caller \in Callers, id \in 1..Len(FiledApplications),
       job \in UpdateJobInputs, status \in UpdateStatusInputs :
        (ApplicationUpdate(caller, id, job, status)
         /\ ~OwningProvider(caller, id)) => UNCHANGED applications

\* C12: GET and PUT/PATCH of a single Application succeed only for an
\* authenticated provider whose Employer owns the Application's Job; for every
\* other caller the Application is left unchanged.
C12_SingleApplicationOnlyByOwner ==
    /\ [](\A caller \in Callers : \A id \in 1..Len(applications) :
            (ApplicationRetrieve(caller, id) = 200) =>
                OwningProvider(caller, id))
    /\ [][DeniedUpdateStep]_vars

C12_Witness ==
    /\ applications[1].status = "REJECTED"
    /\ ApplicationRetrieve(3, 1) = 200
    /\ ApplicationRetrieve(1, 1) = 403
    /\ ApplicationRetrieve(Anonymous, 1) = 403
    /\ ApplicationRetrieve(3, 3) = 403

\* C13: a list of Applications returned to a provider holds only Applications
\* for Jobs of that provider's Employer, and a list returned to a seeker holds
\* only that seeker's Applications, whatever the query parameters.
C13_ListsScopedToCaller ==
    \A caller \in UserIds, status_filter \in UpdateStatusInputs,
       mine \in BOOLEAN :
        \A id \in SeqToSet(ApplicationList(caller, status_filter, mine)) :
            /\ role(caller) = "provider" =>
                    jobs[applications[id].job].employer = caller
            /\ role(caller) = "seeker" => applications[id].seeker = caller

\* C18: an update of an Application changes neither the Job nor the JobSeeker
\* it references.
C18_UpdateKeepsJobAndSeeker ==
    [][\A id \in 1..Len(applications) :
            /\ applications'[id].job = applications[id].job
            /\ applications'[id].seeker = applications[id].seeker]_vars

(***************************************************************************)
(* Claims about Jobs (SpecJob).                                            *)
(***************************************************************************)
\* The caller is a provider with an Employer profile.
ProviderWithEmployer(caller) ==
    /\ caller # Anonymous
    /\ users[caller].role = "provider"
    /\ caller \in employer_profile

\* Job id is changed or removed by the step.
JobTouched(id) == id \notin 1..Len(jobs') \/ jobs'[id] # jobs[id]

OwnedJobStep ==
    /\ \A caller \in Callers, active \in BOOLEAN :
            (JobCreate(caller, active) /\ jobs' # jobs) =>
                /\ ProviderWithEmployer(caller)
                /\ jobs' = Append(jobs, [employer |-> caller,
                                         is_active |-> active])
    /\ \A id \in 1..Len(jobs) :
            JobTouched(id) =>
                \E active \in BOOLEAN :
                    \/ JobUpdate(jobs[id].employer, id, active)
                    \/ JobDelete(jobs[id].employer, id)

\* C14: a Job is created only by an authenticated provider with an Employer
\* profile and is owned by that Employer; an existing Job is changed or removed
\* only by a request of the user who owns its Employer.
C14_JobsOnlyByOwner ==
    /\ [](\A id \in 1..Len(jobs) : ProviderWithEmployer(jobs[id].employer))
    /\ [][OwnedJobStep]_vars

C14_Witness ==
    /\ Len(jobs) >= 2
    /\ \E id \in 1..Len(jobs) :
            /\ ~jobs[id].is_active
            /\ JobWrite(jobs[id].employer, id) = 500
            /\ JobWrite(1, id) = 500
            /\ JobWrite(Anonymous, id) = 401

(***************************************************************************)
(* Claims about the administration of accounts (SpecAdmin).                *)
(***************************************************************************)
\* The caller is an active account with is_staff.
Administrator(caller) ==
    /\ caller \in 1..Len(users)
    /\ users[caller].is_active
    /\ users[caller].is_staff

SoftDeleteStep ==
    \A caller \in Callers, id \in 1..Len(users) :
        (AdminDestroy(caller, id) /\ Administrator(caller)) =>
            /\ AdminDestroyStatus(caller, id) = 204
            /\ Len(users') = Len(users)
            /\ ~users'[id].is_active
            /\ \A u \in 1..Len(users) :
                    users'[u] = [users[u] EXCEPT
                                    !.is_active = IF u = id THEN FALSE ELSE @]
            /\ UNCHANGED <<employer_profile, seeker_profile, jobs, applications,
                           interviews, nextInterview, appointments>>
            /\ ~users[id].is_active => UNCHANGED vars

\* C15: an administrator's DELETE of a user removes no row, changes only that
\* user's is_active to false and answers 204; a DELETE of a user that is
\* already inactive answers 204 and leaves the store as it is.
C15_SoftDeleteIdempotent == [][SoftDeleteStep]_vars

C15_Witness ==
    /\ Len(users) = 3
    /\ ~users[3].is_active
    /\ users[2].is_active
    /\ Administrator(1)
    /\ AdminDestroyStatus(1, 3) = 204

\* The body carries is_staff or is_superuser.
CarriesFlag(attrs) == attrs.is_staff # None \/ attrs.is_superuser # None

FlagsOf(u) == <<u.is_staff, u.is_superuser>>

FlagStep ==
    /\ \A id \in 1..Len(users) :
            (FlagsOf(users'[id]) # FlagsOf(users[id])) =>
                \E caller \in Callers, attrs \in FlagBodies :
                    /\ Administrator(caller)
                    /\ users[caller].is_superuser
                    /\ CarriesFlag(attrs)
                    /\ AdminUpdate(caller, id, attrs)
    /\ \A id \in (Len(users) + 1)..Len(users') :
            FlagsOf(users'[id]) = <<FALSE, FALSE>>
    /\ \A caller \in Callers, id \in UserIds, attrs \in FlagBodies :
            (/\ AdminUpdate(caller, id, attrs)
             /\ CarriesFlag(attrs)
             /\ ~(caller \in 1..Len(users) /\ users[caller].is_superuser)) =>
                UNCHANGED users

\* C16: is_staff and is_superuser of an account change only through an admin
\* update issued by a superuser, an account is created with both flags off,
\* and an update that carries either flag from a caller who is not a superuser
\* leaves the target account unchanged.
C16_FlagsOnlyBySuperuser == [][FlagStep]_vars

C16_Witness ==
    /\ Len(users) = 3
    /\ Administrator(2) /\ ~users[2].is_superuser
    /\ users[3].is_superuser
    /\ ~validate(2, Attrs(None, None, Some(TRUE), None))
    /\ validate(1, Attrs(None, None, Some(TRUE), None))

(***************************************************************************)
(* Claims about profiles (SpecProfile).                                    *)
(***************************************************************************)
\* The accounts created through UserSerializer (account 1 is the superuser of
\* create_superuser, which gets no profile).
RegisteredUsers == 2..Len(users)

\* C17: each User has exactly one profile and it matches the user's role: a
\* seeker has a JobSeeker profile and no Employer profile, a provider has an
\* Employer profile and no JobSeeker profile.
C17_OneProfileMatchingRole ==
    \A u \in RegisteredUsers :
        /\ users[u].role = "seeker" =>
                u \in seeker_profile /\ u \notin employer_profile
        /\ users[u].role = "provider" =>
                u \in employer_profile /\ u \notin seeker_profile

(***************************************************************************)
(* Claims about registration and login (SpecReg).                          *)
(***************************************************************************)
\* C19: every active User logs in with the email and password of its account
\* and receives its own token, and no two Users hold emails that differ only
\* in letter case.
C19_EveryUserLogsInAsItself ==
    /\ \A u \in 1..Len(users) :
            users[u].is_active =>
                LoginResult(users[u].email, users[u].password) =
                    [status |-> 200, user |-> u]
    /\ \A u, v \in 1..Len(users) :
            u # v => ~iexact(users[u].email, users[v].email)

====
